---- MODULE Spec2Model ----
(***************************************************************************)
(* A model of the batch orchestrator of src/main.go: the persistent        *)
(* archive ("ledger") file, the in-memory archive set, the pending set,    *)
(* the fan-out of one processVideo goroutine per identifier, the results   *)
(* channel, the closer goroutine and the aggregating loop of main.         *)
(*                                                                         *)
(* Strings that the code transforms (identifiers, file contents) are       *)
(* sequences of one-character strings, so that Fprintln, bufio.Scanner and *)
(* strings.TrimSpace are computed and not assumed.  Error messages are     *)
(* sequences of words, so that strings.Contains(msg, "skipped") is         *)
(* computed on the message the code built.                                 *)
(*                                                                         *)
(* A write that fails is taken to leave the file's content as it was.      *)
(***************************************************************************)
EXTENDS Integers, Sequences, FiniteSets, TLC

\* ------------------------------------------------------------------ bounds
\* longest command line (os.Args[1:]) of one run
MaxArgs == 2
\* number of consecutive runs of the program over the same archive file
MaxRuns == 2
\* longest archive file, in lines, that appendToArchive on its own starts from
MaxLines == 2

\* ------------------------------------------------------- strings and files
NL == "\n"
CR == "\r"

\* the identifiers a command line is drawn from: "a" and " a"
Identifiers == { <<"a">>, <<" ", "a">> }

\* the identifiers appendToArchive is applied to on its own: also ""
LedgerIdentifiers == Identifiers \cup { <<>> }

\* unicode.IsSpace on the characters of the model
IsSpace(c) == c \in {" ", "\t", NL, CR}

RECURSIVE TrimLeft(_)
TrimLeft(s) ==
    IF s # <<>> /\ IsSpace(Head(s)) THEN TrimLeft(Tail(s)) ELSE s

RECURSIVE TrimRight(_)
TrimRight(s) ==
    IF s # <<>> /\ IsSpace(s[Len(s)])
    THEN TrimRight(SubSeq(s, 1, Len(s) - 1))
    ELSE s

\* no trimming at all
TrimSpace_None(s) == s

\* strings.TrimSpace
TrimSpace(s) == TrimRight(TrimLeft(s))

\* bufio.dropCR
DropCR(s) ==
    IF s # <<>> /\ s[Len(s)] = CR THEN SubSeq(s, 1, Len(s) - 1) ELSE s

\* bufio.ScanLines over the whole file: the tokens scanner.Scan() yields
RECURSIVE ScanLines(_, _)
ScanLines(data, cur) ==
    IF data = <<>>
    THEN IF cur = <<>> THEN <<>> ELSE <<DropCR(cur)>>
    ELSE IF Head(data) = NL
         THEN <<DropCR(cur)>> \o ScanLines(Tail(data), <<>>)
         ELSE ScanLines(Tail(data), Append(cur, Head(data)))

\* fmt.Fprintln(file, identifier) on a file opened with O_APPEND
Fprintln(data, identifier) == data \o identifier \o <<NL>>

\* the set initArchive builds from the file's content (main.go 107-113)
LoadArchive(data) ==
    LET lines == ScanLines(data, <<>>)
    IN  { TrimSpace(lines[i]) : i \in DOMAIN lines } \ { <<>> }

\* ----------------------------------------------------------------- errors
NoErr == <<>>
ErrDuplicate == <<"duplicate", "in", "progress">>
ErrSkipped == <<"skipped", "(archived)">>
ErrYtDlp == <<"yt-dlp", "error:", "exit", "status", "1">>
ErrYtDlpCanceled == <<"yt-dlp", "error:", "context", "canceled">>
ErrInitOpen == <<"failed", "to", "open", "archive">>
ErrInitRead == <<"archive", "read", "error">>
ErrExePath == <<"could", "not", "determine", "executable", "path">>
ErrArchiveOpen == <<"archive", "open", "failed">>
ErrArchiveWrite == <<"archive", "write", "failed">>

\* strings.Contains(msg, word), on messages made of words
Contains(msg, word) == \E i \in DOMAIN msg : msg[i] = word

\* ------------------------------------------------------------------ state
VARIABLES
    file,             \* content of the archive file
    fileExists,       \* whether the archive file exists
    run,              \* number of runs started so far
    mainPc,           \* "none" | "loop" | "exited"
    exitCode,         \* -1 while running or before the first run
    rawArgs,          \* os.Args[1:] of the current run
    args,             \* the identifiers jobs were launched for
    totalItems,
    processedArchive, \* processedArchive.m
    pending,          \* pending.m
    job,              \* item number -> goroutine state of processVideo
    wg,               \* the WaitGroup counter
    results,          \* buffered content of the results channel
    closed,           \* whether results is closed
    closerPc,         \* "none" | "wait" | "close" | "done"
    panicked,         \* a send on the closed channel happened
    processedCount,
    skippedCount,
    errorCount,
    reported,         \* item number -> class given by handleProcessingResult
    summary,          \* "none" | "complete" | "interrupted"
    appendedOK,       \* identifiers whose appendToArchive returned nil, ever
    ledgerErr,        \* identifiers whose append failed after a good task, ever
    prev,             \* what the previous run was given and how it ended
    sigBuffered,      \* signals waiting in the shutdownSignal channel
    ctxCancelled,     \* whether cancel() of the shared context was called
    initErr,          \* the error main ended the run with before any job
    mu,               \* the job that holds processedArchive's mutex, or 0
    sigPc,            \* the goroutine that receives from shutdownSignal
    itemsDone,        \* the itemsDone counter of the earlier versions
    doneShown,        \* the itemsDone value their summary printed, or -1
    held              \* outputMutex, pending's mutex -> holding job or 0

vars == << file, fileExists, run, mainPc, exitCode, rawArgs, args, totalItems,
           processedArchive, pending, job, wg, results, closed, closerPc,
           panicked, processedCount, skippedCount, errorCount, reported,
           summary, appendedOK, ledgerErr, prev, sigBuffered, ctxCancelled,
           initErr, mu, sigPc, itemsDone, doneShown, held >>

\* state that only the finer-grained and the earlier programs use
otherVars == << mu, sigPc, itemsDone, doneShown, held >>

fileVars == << file, fileExists >>
histVars == << appendedOK, ledgerErr, prev >>
countVars == << processedCount, skippedCount, errorCount, reported >>
chanVars == << results, closed, closerPc, panicked >>
mainVars == << run, mainPc, exitCode, rawArgs, args, totalItems, summary,
              sigBuffered, ctxCancelled, initErr >>

\* all command lines of at most MaxArgs identifiers
RECURSIVE SeqsUpTo(_, _)
SeqsUpTo(S, n) ==
    IF n = 0 THEN { <<>> }
    ELSE LET shorter == SeqsUpTo(S, n - 1)
         IN  shorter \cup { Append(s, x) : s \in shorter, x \in S }

ArgLists == SeqsUpTo(Identifiers, MaxArgs)

NoPrev == [args |-> <<>>, allSucceeded |-> FALSE]

\* outputMutex and the mutex of pending (main.go 45, 47), nobody holding them
NoLocks == [outputMutex |-> 0, pending |-> 0]

Init ==
    /\ file = <<>>
    /\ fileExists = FALSE
    /\ run = 0
    /\ mainPc = "none"
    /\ exitCode = -1
    /\ rawArgs = <<>>
    /\ args = <<>>
    /\ totalItems = 0
    /\ processedArchive = {}
    /\ pending = {}
    /\ job = <<>>
    /\ wg = 0
    /\ results = <<>>
    /\ closed = FALSE
    /\ closerPc = "none"
    /\ panicked = FALSE
    /\ processedCount = 0
    /\ skippedCount = 0
    /\ errorCount = 0
    /\ reported = <<>>
    /\ summary = "none"
    /\ appendedOK = {}
    /\ ledgerErr = {}
    /\ prev = NoPrev
    /\ sigBuffered = 0
    /\ ctxCancelled = FALSE
    /\ initErr = NoErr
    /\ mu = 0
    /\ sigPc = "none"
    /\ itemsDone = 0
    /\ doneShown = -1
    /\ held = NoLocks

\* ------------------------------------------------------- pure functions
\* deduplicateArgs (main.go 247-257): the loop over args with seen/unique
RECURSIVE dedupLoop(_, _, _)
dedupLoop(rest, seen, unique) ==
    IF rest = <<>> THEN unique
    ELSE IF Head(rest) \in seen
         THEN dedupLoop(Tail(rest), seen, unique)
         ELSE dedupLoop(Tail(rest), seen \cup {Head(rest)},
                        Append(unique, Head(rest)))

\* deduplicateArgs keeping the last occurrence of an identifier, not the
\* first
RECURSIVE deduplicateArgs_KeepLast(_)
deduplicateArgs_KeepLast(a) ==
    IF a = <<>> THEN <<>>
    ELSE IF \E i \in DOMAIN Tail(a) : Tail(a)[i] = Head(a)
         THEN deduplicateArgs_KeepLast(Tail(a))
         ELSE <<Head(a)>> \o deduplicateArgs_KeepLast(Tail(a))

\* deduplicateArgs returning its input as it is
deduplicateArgs_Identity(a) == a

deduplicateArgs(a) == dedupLoop(a, {}, <<>>)

\* totalItems = len(args) (main.go 69)
CountItems(list) == Len(list)

\* var interrupted bool (main.go 90): declared, never assigned
interrupted == FALSE

\* markPending refusing whenever any identifier is pending
markPendingOK_AnyPending(p, identifier) == p = {}

\* markPending inserting whatever the set holds
markPendingOK_Always(p, identifier) == TRUE

\* markPending's test (main.go 193): TRUE when the identifier gets inserted
markPendingOK(p, identifier) == identifier \notin p

\* appendToArchive (main.go 207-223), by the outcome of the file operations:
\* "ok", "openfail" (OpenFile failed), "writefail" (Fprintln failed)
AppendOutcomes == {"ok", "openfail", "writefail"}

appendToArchiveFile(data, identifier, outcome) ==
    IF outcome = "ok" THEN Fprintln(data, identifier) ELSE data

appendToArchiveExists(exists, outcome) ==
    IF outcome = "openfail" THEN exists ELSE TRUE

\* appendToArchive marking the identifier before the write is known good
appendToArchiveMem_Always(m, identifier, outcome) == m \cup {identifier}

appendToArchiveMem(m, identifier, outcome) ==
    IF outcome = "ok" THEN m \cup {identifier} ELSE m

appendToArchiveErr(outcome) ==
    CASE outcome = "ok" -> NoErr
      [] outcome = "openfail" -> ErrArchiveOpen
      [] OTHER -> ErrArchiveWrite

\* handleProcessingResult logging an archive error without counting it
Classify_Uncounted(r) ==
    CASE r.ArchiveErr # NoErr -> "logged"
      [] r.Error # NoErr ->
            IF Contains(r.Error, "skipped") THEN "skipped" ELSE "error"
      [] OTHER -> "success"

\* handleProcessingResult looking at result.Error only
Classify_ErrorOnly(r) ==
    CASE r.Error # NoErr ->
            IF Contains(r.Error, "skipped") THEN "skipped" ELSE "error"
      [] OTHER -> "success"

\* the switch of handleProcessingResult (main.go 229-244): the counter a
\* result increments
Classify(r) ==
    CASE r.ArchiveErr # NoErr -> "error"
      [] r.Error # NoErr ->
            IF Contains(r.Error, "skipped") THEN "skipped" ELSE "error"
      [] OTHER -> "success"

\* the closer goroutine closing without waiting
WgWaitReturns_NoWait == TRUE

\* wg.Wait() returns (main.go 86)
WgWaitReturns == wg = 0

\* -------------------------------------------------------------- main, part 1
\* taskOK: the external process exited with success; appendCalled:
\* appendToArchive was called; lateStart: the process was started after a
\* signal had arrived; acquired: markPending returned true; absent: the
\* identifier was not in processedArchive.m when the job looked; runErr: the
\* local err of processItem in src/Archive/ytmp3_v0.3.go
NewJob == [pc |-> "mark", Error |-> NoErr, ArchiveErr |-> NoErr,
           ran |-> FALSE, sent |-> 0, taskOK |-> FALSE,
           appendCalled |-> FALSE, lateStart |-> FALSE,
           acquired |-> FALSE, absent |-> FALSE, runErr |-> NoErr]

InitOutcomes == {"ok", "openfail", "readerr", "nopath"}

\* what initArchive returns (main.go 101-118)
initArchiveErr(outcome) ==
    CASE outcome = "ok" -> NoErr
      [] outcome = "openfail" -> ErrInitOpen
      [] OTHER -> ErrInitRead

\* the error main calls log.Fatalf with before it reads the arguments:
\* os.Executable failed, so that the ledger cannot be located (main.go
\* 58-61), or initArchive failed (main.go 64-66)
startupErr(outcome) ==
    IF outcome = "nopath" THEN ErrExePath ELSE initArchiveErr(outcome)

\* main going on after a failed initArchive
AbortOnInitError_Ignore(err) == FALSE

\* main.go 64-66: log.Fatalf on an initArchive error
AbortOnInitError(err) == err # NoErr

\* one wg.Add too many
WgAdds_OneMore(list) == Len(list) + 1

\* one wg.Add(1) for each go statement (main.go 80-83)
WgAdds(list) == Len(list)

\* capacity of shutdownSignal (main.go 46)
SignalCap == 1

\* main.go 50-88 for the command line raw: initArchive, deduplication (list is
\* what jobs are launched for), the usage exit, and the launch of every
\* goroutine.  A goroutine that has not taken its first step yet stands for one
\* that is not launched yet: wg.Add precedes each go statement and the closer
\* goroutine starts after the loop.
RunMain(raw, list, outcome) ==
    /\ run' = run + 1
    /\ rawArgs' = raw
    /\ fileExists' = IF outcome \in {"openfail", "nopath"}
                      THEN fileExists ELSE TRUE
    /\ processedArchive' = IF outcome = "ok" THEN LoadArchive(file) ELSE {}
    /\ pending' = {}
    /\ results' = <<>>
    /\ closed' = FALSE
    /\ panicked' = FALSE
    /\ processedCount' = 0
    /\ skippedCount' = 0
    /\ errorCount' = 0
    /\ summary' = "none"
    /\ sigBuffered' = 0
    /\ ctxCancelled' = FALSE
    /\ initErr' = startupErr(outcome)
    /\ IF /\ outcome # "nopath"
          /\ ~AbortOnInitError(initArchiveErr(outcome))
          /\ CountItems(list) > 0
       THEN /\ args' = list
            /\ totalItems' = CountItems(list)
            /\ job' = [i \in DOMAIN list |-> NewJob]
            /\ reported' = [i \in DOMAIN list |-> "none"]
            /\ wg' = WgAdds(list)
            /\ closerPc' = "wait"
            /\ mainPc' = "loop"
            /\ exitCode' = -1
            /\ prev' = prev
       ELSE /\ args' = <<>>
            /\ totalItems' = 0
            /\ job' = <<>>
            /\ reported' = <<>>
            /\ wg' = 0
            /\ closerPc' = "none"
            /\ mainPc' = "exited"
            /\ exitCode' = 1
            /\ prev' = NoPrev
    /\ UNCHANGED << otherVars, file, appendedOK, ledgerErr >>

\* the program is started, for the first time or after an earlier run ended
StartRun ==
    /\ mainPc \in {"none", "exited"}
    /\ run < MaxRuns
    /\ \E raw \in ArgLists, o \in InitOutcomes :
          RunMain(raw, deduplicateArgs(raw), o)

\* one run, on the empty archive, of the same program with the
\* deduplication of the input bypassed
StartRunNoDedup ==
    /\ mainPc = "none"
    /\ \E raw \in ArgLists, o \in InitOutcomes : RunMain(raw, raw, o)

\* ------------------------------------------------------------- processVideo
Alive == mainPc = "loop"

At(j, where) == Alive /\ j \in DOMAIN job /\ job[j].pc = where

\* processVideo registering the deferred unmarkPending before it looks at
\* what markPending returned
AfterMark_DeferFirst(ok) == IF ok THEN "check" ELSE "unmark"

\* main.go 142-146: on a rejection processVideo returns before the deferred
\* unmarkPending is registered, so only the deferred send and wg.Done follow
AfterMark(ok) == IF ok THEN "check" ELSE "send"

\* main.go 142-146
MarkPending(j) ==
    /\ At(j, "mark")
    /\ IF markPendingOK(pending, args[j])
       THEN /\ pending' = pending \cup {args[j]}
            /\ job' = [job EXCEPT ![j].pc = AfterMark(TRUE),
                                  ![j].acquired = TRUE]
       ELSE /\ pending' = pending
            /\ job' = [job EXCEPT ![j].pc = AfterMark(FALSE),
                                  ![j].Error = ErrDuplicate]
    /\ UNCHANGED << otherVars, fileVars, histVars, countVars, chanVars, mainVars,
                    processedArchive, wg >>

\* the lookup finding nothing, whatever the set holds
ArchiveExists_Never(m, identifier) == FALSE

\* _, exists := processedArchive.m[identifier] (main.go 149)
ArchiveExists(m, identifier) == identifier \in m

\* main.go 148-155
CheckArchive(j) ==
    /\ At(j, "check")
    /\ IF ArchiveExists(processedArchive, args[j])
       THEN job' = [job EXCEPT ![j].pc = "unmark", ![j].Error = ErrSkipped,
                               ![j].absent = (args[j] \notin processedArchive)]
       ELSE job' = [job EXCEPT ![j].pc = "spawn",
                               ![j].absent = (args[j] \notin processedArchive)]
    /\ UNCHANGED << otherVars, fileVars, histVars, countVars, chanVars, mainVars,
                    processedArchive, pending, wg >>

\* the error of cmd.Run on a command made by exec.CommandContext(ctx, ...),
\* wrapped by main.go 176: nil when the process exited with success and the
\* context was not done
cmdRunErr(exitOK, ctxDone) ==
    IF ctxDone THEN ErrYtDlpCanceled
    ELSE IF exitOK THEN NoErr ELSE ErrYtDlp

\* processVideo going on to appendToArchive whatever cmd.Run returned
AfterRun_Append(err) == "append"

\* processVideo returning after cmd.Run whatever it returned
AfterRun_Return(err) == "unmark"

\* main.go 175-180: return on an error (the deferred calls follow), else
\* go on to appendToArchive
AfterRun(err) == IF err # NoErr THEN "unmark" ELSE "append"

\* unmarkPending leaving the set as it is
unmarkPendingSet_Keep(p, identifier) == p

\* unmarkPending (main.go 201-205)
unmarkPendingSet(p, identifier) == p \ {identifier}

\* cmd.Run (main.go 175), its start: the process is spawned, or Run returns
\* an error at once
StartTask(j, ok) ==
    /\ At(j, "spawn")
    /\ IF ok /\ ~ctxCancelled
       THEN job' = [job EXCEPT ![j].pc = "running", ![j].ran = TRUE,
                               ![j].lateStart = (sigBuffered > 0)]
       ELSE job' = [job EXCEPT ![j].pc = AfterRun(cmdRunErr(FALSE, ctxCancelled)),
                               ![j].Error = cmdRunErr(FALSE, ctxCancelled)]
    /\ UNCHANGED << otherVars, fileVars, histVars, countVars, chanVars, mainVars,
                    processedArchive, pending, wg >>

\* cmd.Run (main.go 175-178), its end: the process exits
TaskExit(j, ok) ==
    /\ At(j, "running")
    /\ job' = [job EXCEPT ![j].pc = AfterRun(cmdRunErr(ok, ctxCancelled)),
                          ![j].Error = cmdRunErr(ok, ctxCancelled),
                          ![j].taskOK = ok]
    /\ UNCHANGED << otherVars, fileVars, histVars, countVars, chanVars, mainVars,
                    processedArchive, pending, wg >>

\* main.go 180-182 with appendToArchive (207-223), one critical section
AppendToArchive(j, outcome) ==
    /\ At(j, "append")
    /\ file' = appendToArchiveFile(file, args[j], outcome)
    /\ fileExists' = appendToArchiveExists(fileExists, outcome)
    /\ processedArchive' = appendToArchiveMem(processedArchive, args[j], outcome)
    /\ job' = [job EXCEPT ![j].pc = "unmark",
                          ![j].ArchiveErr = appendToArchiveErr(outcome),
                          ![j].appendCalled = TRUE]
    /\ appendedOK' = IF appendToArchiveErr(outcome) = NoErr
                     THEN appendedOK \cup {args[j]} ELSE appendedOK
    /\ ledgerErr' = IF appendToArchiveErr(outcome) = NoErr
                    THEN ledgerErr ELSE ledgerErr \cup {args[j]}
    /\ UNCHANGED << otherVars, prev, countVars, chanVars, mainVars, pending,
                    wg >>

\* the deferred unmarkPending (main.go 146, 201-205)
UnmarkPending(j) ==
    /\ At(j, "unmark")
    /\ pending' = unmarkPendingSet(pending, args[j])
    /\ job' = [job EXCEPT ![j].pc = "send"]
    /\ UNCHANGED << otherVars, fileVars, histVars, countVars, chanVars, mainVars,
                    processedArchive, wg >>

ResultOf(j) == [ItemNumber |-> j, Identifier |-> args[j],
                Error |-> job[j].Error, ArchiveErr |-> job[j].ArchiveErr]

\* the deferred send (main.go 130-133): blocks while the buffer is full,
\* panics on a closed channel (the process dies with exit code 2)
SendResult(j) ==
    /\ At(j, "send")
    /\ closed \/ Len(results) < totalItems
    /\ IF closed
       THEN /\ panicked' = TRUE
            /\ mainPc' = "exited"
            /\ exitCode' = 2
            /\ UNCHANGED << results, job >>
       ELSE /\ results' = Append(results, ResultOf(j))
            /\ job' = [job EXCEPT ![j].pc = "wgdone", ![j].sent = @ + 1]
            /\ UNCHANGED << panicked, mainPc, exitCode >>
    /\ UNCHANGED << otherVars, fileVars, histVars, countVars, closed, closerPc, run,
                    rawArgs, args, totalItems, summary, processedArchive,
                    pending, wg, sigBuffered, ctxCancelled, initErr >>

\* the deferred wg.Done (main.go 122)
WgDone(j) ==
    /\ At(j, "wgdone")
    /\ wg' = wg - 1
    /\ job' = [job EXCEPT ![j].pc = "done"]
    /\ UNCHANGED << otherVars, fileVars, histVars, countVars, chanVars, mainVars,
                    processedArchive, pending >>

\* ------------------------------------------------------ the closer goroutine
\* main.go 86
CloserWait ==
    /\ Alive
    /\ closerPc = "wait"
    /\ WgWaitReturns
    /\ closerPc' = "close"
    /\ UNCHANGED << otherVars, fileVars, histVars, countVars, mainVars, results, closed,
                    panicked, processedArchive, pending, job, wg >>

\* main.go 87
CloserClose ==
    /\ Alive
    /\ closerPc = "close"
    /\ closed' = TRUE
    /\ closerPc' = "done"
    /\ UNCHANGED << otherVars, fileVars, histVars, countVars, mainVars, results,
                    panicked, processedArchive, pending, job, wg >>

\* -------------------------------------------------------------- main, part 2
\* one iteration of the range loop (main.go 93-95) with
\* handleProcessingResult (225-245)
HandleResult ==
    /\ Alive
    /\ results # <<>>
    /\ LET r == Head(results)
           c == Classify(r)
       IN  /\ results' = Tail(results)
           /\ processedCount' = processedCount + (IF c = "success" THEN 1 ELSE 0)
           /\ skippedCount' = skippedCount + (IF c = "skipped" THEN 1 ELSE 0)
           /\ errorCount' = errorCount + (IF c = "error" THEN 1 ELSE 0)
           /\ reported' = [reported EXCEPT ![r.ItemNumber] = c]
    /\ UNCHANGED << otherVars, fileVars, histVars, mainVars, closed, closerPc, panicked,
                    processedArchive, pending, job, wg >>

\* the loop ends on the closed, drained channel; main returns (main.go 96):
\* the deferred printSummary(interrupted) and cancel() run and the process
\* exits with 0
MainReturn ==
    /\ Alive
    /\ results = <<>>
    /\ closed
    /\ summary' = IF interrupted THEN "interrupted" ELSE "complete"
    /\ mainPc' = "exited"
    /\ exitCode' = 0
    /\ prev' = IF \A i \in DOMAIN reported : reported[i] = "success"
               THEN [args |-> rawArgs, allSucceeded |-> TRUE]
               ELSE NoPrev
    /\ ctxCancelled' = TRUE
    /\ UNCHANGED << otherVars, fileVars, countVars, chanVars, appendedOK, ledgerErr, run,
                    rawArgs, args, totalItems, processedArchive, pending, job,
                    wg, sigBuffered, initErr >>

\* ------------------------------------------------------------------ signals
\* SIGINT or SIGTERM arrives: signal.Notify (main.go 54) puts it in
\* shutdownSignal when there is room and drops it otherwise.  No goroutine
\* of main.go receives from shutdownSignal.
Signal ==
    /\ Alive
    /\ sigBuffered < SignalCap
    /\ sigBuffered' = sigBuffered + 1
    /\ UNCHANGED << otherVars, fileVars, histVars, countVars, chanVars, run, mainPc,
                    exitCode, rawArgs, args, totalItems, summary, ctxCancelled,
                    initErr, processedArchive, pending, job, wg >>

\* ----------------------------------------------------------- specifications
Next ==
    \/ StartRun
    \/ \E j \in DOMAIN job : MarkPending(j)
    \/ \E j \in DOMAIN job : CheckArchive(j)
    \/ \E j \in DOMAIN job, ok \in BOOLEAN : StartTask(j, ok)
    \/ \E j \in DOMAIN job, ok \in BOOLEAN : TaskExit(j, ok)
    \/ \E j \in DOMAIN job, o \in AppendOutcomes : AppendToArchive(j, o)
    \/ \E j \in DOMAIN job : UnmarkPending(j)
    \/ \E j \in DOMAIN job : SendResult(j)
    \/ \E j \in DOMAIN job : WgDone(j)
    \/ CloserWait
    \/ CloserClose
    \/ HandleResult
    \/ MainReturn

Spec == Init /\ [][Next]_vars

\* every step of the program but the exit of an external process
ProgramStep ==
    \/ \E j \in DOMAIN job : MarkPending(j)
    \/ \E j \in DOMAIN job : CheckArchive(j)
    \/ \E j \in DOMAIN job, ok \in BOOLEAN : StartTask(j, ok)
    \/ \E j \in DOMAIN job, o \in AppendOutcomes : AppendToArchive(j, o)
    \/ \E j \in DOMAIN job : UnmarkPending(j)
    \/ \E j \in DOMAIN job : SendResult(j)
    \/ \E j \in DOMAIN job : WgDone(j)
    \/ CloserWait
    \/ CloserClose
    \/ HandleResult
    \/ MainReturn

ProcessExit == \E j \in DOMAIN job, ok \in BOOLEAN : TaskExit(j, ok)

\* the state before one run that finds either no ledger file or the file
\* an earlier run left after it downloaded "a"
InitOneRun ==
    /\ file \in { <<>>, Fprintln(<<>>, <<"a">>) }
    /\ fileExists = (file # <<>>)
    /\ run = 0
    /\ mainPc = "none"
    /\ exitCode = -1
    /\ rawArgs = <<>>
    /\ args = <<>>
    /\ totalItems = 0
    /\ processedArchive = {}
    /\ pending = {}
    /\ job = <<>>
    /\ wg = 0
    /\ results = <<>>
    /\ closed = FALSE
    /\ closerPc = "none"
    /\ panicked = FALSE
    /\ processedCount = 0
    /\ skippedCount = 0
    /\ errorCount = 0
    /\ reported = <<>>
    /\ summary = "none"
    /\ appendedOK = {}
    /\ ledgerErr = {}
    /\ prev = NoPrev
    /\ sigBuffered = 0
    /\ ctxCancelled = FALSE
    /\ initErr = NoErr
    /\ mu = 0
    /\ sigPc = "none"
    /\ itemsDone = 0
    /\ doneShown = -1
    /\ held = NoLocks

\* the only run of the process
StartRunOnce ==
    /\ mainPc = "none"
    /\ StartRun

NextSignal ==
    \/ StartRunOnce
    \/ Signal
    \/ ProcessExit
    \/ ProgramStep

\* the program with operator signals; the scheduler runs every goroutine
\* that can take a step, an external process may run for ever
SpecSignal == InitOneRun /\ [][NextSignal]_vars /\ WF_vars(ProgramStep)

\* the same, every started external process exits
SpecLive ==
    InitOneRun /\ [][NextSignal]_vars /\ WF_vars(ProgramStep)
        /\ WF_vars(ProcessExit)

\* main up to the launch of the jobs, for argument lists of up to
\* MaxDedupLen identifiers, the empty identifier among them
MaxDedupLen == 4

StartRunLong ==
    /\ mainPc = "none"
    /\ \E raw \in SeqsUpTo(LedgerIdentifiers, MaxDedupLen) :
          RunMain(raw, deduplicateArgs(raw), "ok")

SpecDedup == Init /\ [][StartRunLong]_vars

\* ------------------------------------------- the ledger lock, step by step
\* The archive lookup (main.go 148-150) and appendToArchive (main.go
\* 207-223) with processedArchive's mutex and every statement between Lock
\* and Unlock a step of its own.

\* what these steps leave alone
lockFrame == << sigPc, itemsDone, doneShown, held, countVars, chanVars,
               mainVars, pending, wg >>

\* a mutex that lets everybody in
LockFree_Always(holder) == TRUE

\* sync.Mutex: Lock returns when nobody holds the mutex
LockFree(holder) == holder = 0

\* an Unlock that was left out
MutexUnlock_Missing(holder) == holder

\* sync.Mutex: after Unlock nobody holds the mutex
MutexUnlock(holder) == 0

\* processedArchive.Lock() (main.go 148)
CheckLock(j) ==
    /\ At(j, "check")
    /\ LockFree(mu)
    /\ mu' = j
    /\ job' = [job EXCEPT ![j].pc = "check_read"]
    /\ UNCHANGED << lockFrame, fileVars, histVars, processedArchive >>

\* _, exists := processedArchive.m[identifier] (main.go 149)
CheckRead(j) ==
    /\ At(j, "check_read")
    /\ job' = [job EXCEPT ![j].pc = "check_unlock",
                          ![j].absent = ~ArchiveExists(processedArchive, args[j])]
    /\ UNCHANGED << lockFrame, fileVars, histVars, processedArchive, mu >>

\* processedArchive.Unlock() and the test of exists (main.go 150-155)
CheckUnlock(j) ==
    /\ At(j, "check_unlock")
    /\ mu' = MutexUnlock(mu)
    /\ IF ~job[j].absent
       THEN job' = [job EXCEPT ![j].pc = "unmark", ![j].Error = ErrSkipped]
       ELSE job' = [job EXCEPT ![j].pc = "spawn"]
    /\ UNCHANGED << lockFrame, fileVars, histVars, processedArchive >>

\* processedArchive.Lock() (main.go 208)
AppLock(j) ==
    /\ At(j, "append")
    /\ LockFree(mu)
    /\ mu' = j
    /\ job' = [job EXCEPT ![j].pc = "app_open", ![j].appendCalled = TRUE]
    /\ UNCHANGED << lockFrame, fileVars, histVars, processedArchive >>

\* os.OpenFile with O_APPEND|O_CREATE (main.go 211-215)
AppOpen(j, ok) ==
    /\ At(j, "app_open")
    /\ IF ok
       THEN /\ fileExists' = TRUE
            /\ job' = [job EXCEPT ![j].pc = "app_write"]
       ELSE /\ fileExists' = fileExists
            /\ job' = [job EXCEPT ![j].pc = "app_unlock",
                                  ![j].ArchiveErr = ErrArchiveOpen]
    /\ UNCHANGED << lockFrame, file, histVars, processedArchive, mu >>

\* fmt.Fprintln(file, identifier) (main.go 217-219)
AppWrite(j, ok) ==
    /\ At(j, "app_write")
    /\ IF ok
       THEN /\ file' = Fprintln(file, args[j])
            /\ job' = [job EXCEPT ![j].pc = "app_mem"]
       ELSE /\ file' = file
            /\ job' = [job EXCEPT ![j].pc = "app_unlock",
                                  ![j].ArchiveErr = ErrArchiveWrite]
    /\ UNCHANGED << lockFrame, fileExists, histVars, processedArchive, mu >>

\* processedArchive.m[identifier] = struct{}{} (main.go 221)
AppMem(j) ==
    /\ At(j, "app_mem")
    /\ processedArchive' = processedArchive \cup {args[j]}
    /\ job' = [job EXCEPT ![j].pc = "app_unlock"]
    /\ UNCHANGED << lockFrame, fileVars, histVars, mu >>

\* the deferred file.Close() and processedArchive.Unlock(), and the return
\* to processVideo (main.go 180-182)
AppUnlock(j) ==
    /\ At(j, "app_unlock")
    /\ mu' = MutexUnlock(mu)
    /\ job' = [job EXCEPT ![j].pc = "unmark"]
    /\ appendedOK' = IF job[j].ArchiveErr = NoErr
                     THEN appendedOK \cup {args[j]} ELSE appendedOK
    /\ ledgerErr' = IF job[j].ArchiveErr = NoErr
                    THEN ledgerErr ELSE ledgerErr \cup {args[j]}
    /\ UNCHANGED << lockFrame, fileVars, prev, processedArchive >>

NextLock ==
    \/ StartRunOnce
    \/ \E j \in DOMAIN job : MarkPending(j)
    \/ \E j \in DOMAIN job : CheckLock(j)
    \/ \E j \in DOMAIN job : CheckRead(j)
    \/ \E j \in DOMAIN job : CheckUnlock(j)
    \/ \E j \in DOMAIN job, ok \in BOOLEAN : StartTask(j, ok)
    \/ \E j \in DOMAIN job, ok \in BOOLEAN : TaskExit(j, ok)
    \/ \E j \in DOMAIN job : AppLock(j)
    \/ \E j \in DOMAIN job, ok \in BOOLEAN : AppOpen(j, ok)
    \/ \E j \in DOMAIN job, ok \in BOOLEAN : AppWrite(j, ok)
    \/ \E j \in DOMAIN job : AppMem(j)
    \/ \E j \in DOMAIN job : AppUnlock(j)
    \/ \E j \in DOMAIN job : UnmarkPending(j)
    \/ \E j \in DOMAIN job : SendResult(j)
    \/ \E j \in DOMAIN job : WgDone(j)
    \/ CloserWait
    \/ CloserClose
    \/ HandleResult
    \/ MainReturn

\* one run of main.go with the ledger lock step by step
SpecLock == InitOneRun /\ [][NextLock]_vars

\* ------------------------------------------- the three locks, step by step
\* processVideo with outputMutex (main.go 135-140) and the mutex of pending
\* in markPending and unmarkPending (main.go 185-205) as steps of their own,
\* next to the steps of the ledger lock above.  A job at "mark" has not
\* printed its banner yet.

\* what the steps on outputMutex and on pending's mutex leave alone
mutexFrame == << mu, sigPc, itemsDone, doneShown, fileVars, histVars,
                countVars, chanVars, mainVars, processedArchive, wg >>

\* outputMutex.Lock() (main.go 135)
PrintLock(j) ==
    /\ At(j, "mark")
    /\ LockFree(held.outputMutex)
    /\ held' = [held EXCEPT !.outputMutex = j]
    /\ job' = [job EXCEPT ![j].pc = "print"]
    /\ UNCHANGED << mutexFrame, pending >>

\* the banner and outputMutex.Unlock() (main.go 136-140)
PrintUnlock(j) ==
    /\ At(j, "print")
    /\ held' = [held EXCEPT !.outputMutex = MutexUnlock(@)]
    /\ job' = [job EXCEPT ![j].pc = "mark_lock"]
    /\ UNCHANGED << mutexFrame, pending >>

\* pending.Lock() in markPending (main.go 186)
MarkLock(j) ==
    /\ At(j, "mark_lock")
    /\ LockFree(held.pending)
    /\ held' = [held EXCEPT !.pending = j]
    /\ job' = [job EXCEPT ![j].pc = "mark_in"]
    /\ UNCHANGED << mutexFrame, pending >>

\* the lookup and the insertion of markPending (main.go 189-198)
MarkLookup(j) ==
    /\ At(j, "mark_in")
    /\ IF markPendingOK(pending, args[j])
       THEN /\ pending' = pending \cup {args[j]}
            /\ job' = [job EXCEPT ![j].pc = "mark_unlock",
                                  ![j].acquired = TRUE]
       ELSE /\ pending' = pending
            /\ job' = [job EXCEPT ![j].pc = "mark_unlock"]
    /\ UNCHANGED << mutexFrame, held >>

\* the deferred pending.Unlock() of markPending (main.go 187) and the test
\* of what it returned (main.go 142-146)
MarkUnlock(j) ==
    /\ At(j, "mark_unlock")
    /\ held' = [held EXCEPT !.pending = MutexUnlock(@)]
    /\ job' = [job EXCEPT ![j].pc = AfterMark(job[j].acquired),
                          ![j].Error = IF job[j].acquired
                                       THEN @ ELSE ErrDuplicate]
    /\ UNCHANGED << mutexFrame, pending >>

\* pending.Lock() in the deferred unmarkPending (main.go 146, 202)
UnmarkLock(j) ==
    /\ At(j, "unmark")
    /\ LockFree(held.pending)
    /\ held' = [held EXCEPT !.pending = j]
    /\ job' = [job EXCEPT ![j].pc = "unmark_in"]
    /\ UNCHANGED << mutexFrame, pending >>

\* delete(pending.m, identifier) and the deferred pending.Unlock()
\* (main.go 203-204)
UnmarkDelete(j) ==
    /\ At(j, "unmark_in")
    /\ pending' = unmarkPendingSet(pending, args[j])
    /\ held' = [held EXCEPT !.pending = MutexUnlock(@)]
    /\ job' = [job EXCEPT ![j].pc = "send"]
    /\ UNCHANGED mutexFrame

\* every step of the run once main has launched the jobs
MutexStep ==
    \/ \E j \in DOMAIN job : PrintLock(j)
    \/ \E j \in DOMAIN job : PrintUnlock(j)
    \/ \E j \in DOMAIN job : MarkLock(j)
    \/ \E j \in DOMAIN job : MarkLookup(j)
    \/ \E j \in DOMAIN job : MarkUnlock(j)
    \/ \E j \in DOMAIN job : CheckLock(j)
    \/ \E j \in DOMAIN job : CheckRead(j)
    \/ \E j \in DOMAIN job : CheckUnlock(j)
    \/ \E j \in DOMAIN job, ok \in BOOLEAN : StartTask(j, ok)
    \/ \E j \in DOMAIN job, ok \in BOOLEAN : TaskExit(j, ok)
    \/ \E j \in DOMAIN job : AppLock(j)
    \/ \E j \in DOMAIN job, ok \in BOOLEAN : AppOpen(j, ok)
    \/ \E j \in DOMAIN job, ok \in BOOLEAN : AppWrite(j, ok)
    \/ \E j \in DOMAIN job : AppMem(j)
    \/ \E j \in DOMAIN job : AppUnlock(j)
    \/ \E j \in DOMAIN job : UnmarkLock(j)
    \/ \E j \in DOMAIN job : UnmarkDelete(j)
    \/ \E j \in DOMAIN job : SendResult(j)
    \/ \E j \in DOMAIN job : WgDone(j)
    \/ CloserWait
    \/ CloserClose
    \/ HandleResult
    \/ MainReturn

NextMutex ==
    \/ StartRunOnce
    \/ MutexStep

\* one run of main.go with its three locks step by step
SpecMutex == InitOneRun /\ [][NextMutex]_vars

\* --------------------------------------------------- initArchive alone
\* the program started on a ledger file of any content of up to MaxFileLen
\* characters, or on no file, with no argument: initArchive runs, then main
\* exits on the empty argument list (main.go 64-73)
MaxFileLen == 4

FileChars == {"a", "b", " ", NL, CR}

InitLoad ==
    /\ file \in SeqsUpTo(FileChars, MaxFileLen)
    /\ fileExists \in BOOLEAN
    /\ ~fileExists => file = <<>>
    /\ run = 0
    /\ mainPc = "none"
    /\ exitCode = -1
    /\ rawArgs = <<>>
    /\ args = <<>>
    /\ totalItems = 0
    /\ processedArchive = {}
    /\ pending = {}
    /\ job = <<>>
    /\ wg = 0
    /\ results = <<>>
    /\ closed = FALSE
    /\ closerPc = "none"
    /\ panicked = FALSE
    /\ processedCount = 0
    /\ skippedCount = 0
    /\ errorCount = 0
    /\ reported = <<>>
    /\ summary = "none"
    /\ appendedOK = {}
    /\ ledgerErr = {}
    /\ prev = NoPrev
    /\ sigBuffered = 0
    /\ ctxCancelled = FALSE
    /\ initErr = NoErr
    /\ mu = 0
    /\ sigPc = "none"
    /\ itemsDone = 0
    /\ doneShown = -1
    /\ held = NoLocks

StartRunNoArgs ==
    /\ mainPc = "none"
    /\ \E o \in InitOutcomes : RunMain(<<>>, deduplicateArgs(<<>>), o)

SpecLoad == InitLoad /\ [][StartRunNoArgs]_vars

\* --------------------------------------- src/Archive/ytmp3_v0.3.go
\* The earlier version with the goroutine that receives the signal and
\* cancels the context, and with the counters updated inside processItem.
\* Its package variables have the names of main.go's and are held in the
\* same variables; the deferred pending.Remove, the deferred send, wg.Done
\* and the waiter goroutine (ytmp3_v0.3.go 398-408, 423, 185-188) are the
\* statements of main.go and take the steps UnmarkPending, SendResult,
\* WgDone, CloserWait and CloserClose.  The flags are at their defaults
\* (cfg.SkipArchive false).

ErrSkippedDuplicate == <<"skipped", "(duplicate", "in", "progress)">>
ErrCancelled == <<"cancelled">>
ErrExecutionFailed == <<"yt-dlp", "execution", "failed">>

ArgListsV03 == SeqsUpTo(Identifiers \cup { <<"b">> }, MaxArgs)

RECURSIVE dedupTrimLoop(_, _, _)
dedupTrimLoop(rest, seen, unique) ==
    IF rest = <<>> THEN unique
    ELSE LET trimmed == TrimSpace(Head(rest))
         IN  IF trimmed = <<>> \/ trimmed \in seen
             THEN dedupTrimLoop(Tail(rest), seen, unique)
             ELSE dedupTrimLoop(Tail(rest), seen \cup {trimmed},
                                Append(unique, trimmed))

\* deduplicateArgs of ytmp3_v0.3.go 523-540
deduplicateArgsV03(a) ==
    IF Len(a) < 2 THEN a ELSE dedupTrimLoop(a, {}, <<>>)

\* main of ytmp3_v0.3.go up to the launch of the goroutines (117-188)
StartRunV03 ==
    /\ mainPc = "none"
    /\ \E raw \in ArgListsV03, outcome \in {"ok", "openfail", "readerr"} :
          LET list == deduplicateArgsV03(raw)
          IN  /\ run' = run + 1
              /\ rawArgs' = raw
              /\ sigPc' = "recv"
              /\ fileExists' = IF outcome = "openfail" THEN fileExists ELSE TRUE
              /\ processedArchive' =
                    IF outcome = "ok" THEN LoadArchive(file) ELSE {}
              /\ initErr' = initArchiveErr(outcome)
              /\ IF outcome = "ok" /\ Len(list) > 0
                 THEN /\ args' = list
                      /\ totalItems' = Len(list)
                      /\ job' = [i \in DOMAIN list |-> NewJob]
                      /\ reported' = [i \in DOMAIN list |-> "none"]
                      /\ wg' = Len(list)
                      /\ closerPc' = "wait"
                      /\ mainPc' = "loop"
                      /\ exitCode' = -1
                 ELSE /\ mainPc' = "exited"
                      /\ exitCode' = 1
                      /\ UNCHANGED << args, totalItems, job, reported, wg,
                                      closerPc >>
    /\ UNCHANGED << file, histVars, processedCount, skippedCount, errorCount,
                    results, closed, panicked, pending, summary, sigBuffered,
                    ctxCancelled, mu, itemsDone, doneShown, held >>

\* sig := <-shutdownSignal (ytmp3_v0.3.go 146)
SignalReceive ==
    /\ Alive
    /\ sigPc = "recv"
    /\ sigBuffered > 0
    /\ sigBuffered' = sigBuffered - 1
    /\ sigPc' = "cancel"
    /\ UNCHANGED << fileVars, histVars, countVars, chanVars, run, mainPc,
                    exitCode, rawArgs, args, totalItems, summary, ctxCancelled,
                    initErr, processedArchive, pending, job, wg, mu, itemsDone,
                    doneShown, held >>

\* cancel() (ytmp3_v0.3.go 149)
SignalCancel ==
    /\ Alive
    /\ sigPc = "cancel"
    /\ ctxCancelled' = TRUE
    /\ sigPc' = "done"
    /\ UNCHANGED << fileVars, histVars, countVars, chanVars, run, mainPc,
                    exitCode, rawArgs, args, totalItems, summary, sigBuffered,
                    initErr, processedArchive, pending, job, wg, mu, itemsDone,
                    doneShown, held >>

\* what the steps of processItem leave alone
itemFrame == << otherVars, fileVars, histVars, chanVars, mainVars, wg >>

\* ytmp3_v0.3.go 417-423
ItemAdd(j) ==
    /\ At(j, "mark")
    /\ IF markPendingOK(pending, args[j])
       THEN /\ pending' = pending \cup {args[j]}
            /\ job' = [job EXCEPT ![j].pc = "check", ![j].acquired = TRUE]
            /\ errorCount' = errorCount
       ELSE /\ pending' = pending
            /\ job' = [job EXCEPT ![j].pc = "send",
                                  ![j].Error = ErrSkippedDuplicate]
            /\ errorCount' = errorCount + 1
    /\ UNCHANGED << itemFrame, processedCount, skippedCount, reported,
                    processedArchive >>

\* ytmp3_v0.3.go 425-430
ItemExists(j) ==
    /\ At(j, "check")
    /\ IF ArchiveExists(processedArchive, args[j])
       THEN /\ skippedCount' = skippedCount + 1
            /\ job' = [job EXCEPT ![j].pc = "unmark"]
       ELSE /\ skippedCount' = skippedCount
            /\ job' = [job EXCEPT ![j].pc = "spawn", ![j].absent = TRUE]
    /\ UNCHANGED << itemFrame, processedCount, errorCount, reported,
                    processedArchive, pending >>

\* cmd.Run (ytmp3_v0.3.go 434, 455), its start
ItemStart(j, ok) ==
    /\ At(j, "spawn")
    /\ IF ok /\ ~ctxCancelled
       THEN job' = [job EXCEPT ![j].pc = "running", ![j].ran = TRUE]
       ELSE job' = [job EXCEPT ![j].pc = "outcome",
                               ![j].runErr = cmdRunErr(FALSE, ctxCancelled)]
    /\ UNCHANGED << itemFrame, countVars, processedArchive, pending >>

\* cmd.Run, its end: the process exits, by itself or killed because the
\* context is done
ItemExit(j, ok) ==
    /\ At(j, "running")
    /\ job' = [job EXCEPT ![j].pc = "outcome",
                          ![j].runErr = cmdRunErr(ok, ctxCancelled),
                          ![j].taskOK = (cmdRunErr(ok, ctxCancelled) = NoErr)]
    /\ UNCHANGED << itemFrame, countVars, processedArchive, pending >>

\* the branch processItem takes after cmd.Run (ytmp3_v0.3.go 460-479)
ItemBranch(ctxDone, err) ==
    IF ctxDone THEN "cancelled"
    ELSE IF err # NoErr THEN "failed" ELSE "success"

\* ytmp3_v0.3.go 460-479
ItemOutcome(j) ==
    /\ At(j, "outcome")
    /\ LET b == ItemBranch(ctxCancelled, job[j].runErr)
       IN  /\ job' = [job EXCEPT
                        ![j].pc = IF b = "success" THEN "append" ELSE "unmark",
                        ![j].Error = CASE b = "cancelled" -> ErrCancelled
                                       [] b = "failed" -> ErrExecutionFailed
                                       [] OTHER -> NoErr]
           /\ errorCount' = errorCount + (IF b = "success" THEN 0 ELSE 1)
           /\ processedCount' = processedCount + (IF b = "success" THEN 1 ELSE 0)
    /\ UNCHANGED << itemFrame, skippedCount, reported, processedArchive,
                    pending >>

\* appendToArchive of ytmp3_v0.3.go 499-521 called at 483: Add to the set,
\* open, write, Remove from the set again when the open or the write fails
ItemAppend(j, outcome) ==
    /\ At(j, "append")
    /\ IF args[j] \in processedArchive
       THEN /\ UNCHANGED << fileVars, processedArchive, appendedOK, ledgerErr >>
            /\ job' = [job EXCEPT ![j].pc = "unmark", ![j].appendCalled = TRUE]
       ELSE /\ file' = appendToArchiveFile(file, args[j], outcome)
            /\ fileExists' = appendToArchiveExists(fileExists, outcome)
            /\ processedArchive' =
                  appendToArchiveMem(processedArchive, args[j], outcome)
            /\ job' = [job EXCEPT ![j].pc = "unmark",
                                  ![j].ArchiveErr = appendToArchiveErr(outcome),
                                  ![j].appendCalled = TRUE]
            /\ appendedOK' = IF appendToArchiveErr(outcome) = NoErr
                             THEN appendedOK \cup {args[j]} ELSE appendedOK
            /\ ledgerErr' = IF appendToArchiveErr(outcome) = NoErr
                            THEN ledgerErr ELSE ledgerErr \cup {args[j]}
    /\ UNCHANGED << otherVars, prev, countVars, chanVars, mainVars, pending,
                    wg >>

\* the loop over results (ytmp3_v0.3.go 192-200): it updates no counter
ResultSeen ==
    /\ Alive
    /\ results # <<>>
    /\ results' = Tail(results)
    /\ reported' = [reported EXCEPT ![Head(results).ItemNumber] = "seen"]
    /\ UNCHANGED << otherVars, fileVars, histVars, mainVars, closed, closerPc,
                    panicked, processedArchive, pending, job, wg,
                    processedCount, skippedCount, errorCount >>

\* interrupted as the two selects set it (ytmp3_v0.3.go 191, 203-218)
interruptedV03(ctxDone, buffered) == ctxDone /\ buffered > 0

\* the end of main (ytmp3_v0.3.go 203-221): the selects, printSummary, the
\* deferred cancel
MainFinishV03 ==
    /\ Alive
    /\ results = <<>>
    /\ closed
    /\ summary' = IF interruptedV03(ctxCancelled, sigBuffered)
                  THEN "interrupted" ELSE "complete"
    /\ sigBuffered' = IF interruptedV03(ctxCancelled, sigBuffered)
                      THEN sigBuffered - 1 ELSE sigBuffered
    /\ mainPc' = "exited"
    /\ exitCode' = 0
    /\ ctxCancelled' = TRUE
    /\ UNCHANGED << otherVars, fileVars, histVars, countVars, chanVars, run,
                    rawArgs, args, totalItems, processedArchive, pending, job,
                    wg, initErr >>

NextV03 ==
    \/ StartRunV03
    \/ Signal
    \/ SignalReceive
    \/ SignalCancel
    \/ \E j \in DOMAIN job : ItemAdd(j)
    \/ \E j \in DOMAIN job : ItemExists(j)
    \/ \E j \in DOMAIN job, ok \in BOOLEAN : ItemStart(j, ok)
    \/ \E j \in DOMAIN job, ok \in BOOLEAN : ItemExit(j, ok)
    \/ \E j \in DOMAIN job : ItemOutcome(j)
    \/ \E j \in DOMAIN job, o \in AppendOutcomes : ItemAppend(j, o)
    \/ \E j \in DOMAIN job : UnmarkPending(j)
    \/ \E j \in DOMAIN job : SendResult(j)
    \/ \E j \in DOMAIN job : WgDone(j)
    \/ CloserWait
    \/ CloserClose
    \/ ResultSeen
    \/ MainFinishV03

\* one run of src/Archive/ytmp3_v0.3.go
SpecV03 == InitOneRun /\ [][NextV03]_vars

\* ------------------------------------------- src/Archive/ytmp3.go
\* The earliest version with the itemsDone counter: main looks every
\* argument up itself, starts a goroutine for those not archived, waits on
\* the WaitGroup and prints the counters.  src/unnamed/part_000 has the same
\* main (115-153) and the same two deferred calls (213-214).

\* what the steps of this processVideo leave alone
videoFrame == << mu, sigPc, doneShown, held, histVars, chanVars, mainVars,
                pending,
                skippedCount, reported >>

\* main up to the loop (ytmp3.go 36-62)
StartRunItems ==
    /\ mainPc = "none"
    /\ \E raw \in ArgLists, outcome \in {"ok", "openfail", "readerr"} :
          /\ run' = run + 1
          /\ rawArgs' = raw
          /\ args' = raw
          /\ totalItems' = Len(raw)
          /\ fileExists' = IF outcome = "openfail" THEN fileExists ELSE TRUE
          /\ processedArchive' = IF outcome = "ok" THEN LoadArchive(file) ELSE {}
          /\ initErr' = initArchiveErr(outcome)
          /\ IF outcome = "ok" /\ Len(raw) > 0
             THEN mainPc' = "loop" /\ exitCode' = -1
             ELSE mainPc' = "exited" /\ exitCode' = 1
    /\ UNCHANGED << otherVars, file, histVars, countVars, chanVars, pending,
                    job, wg, summary, sigBuffered, ctxCancelled >>

\* one turn of the loop over args (ytmp3.go 63-80)
LaunchNext ==
    /\ Alive
    /\ Len(job) < totalItems
    /\ LET identifier == args[Len(job) + 1]
       IN  IF ArchiveExists(processedArchive, identifier)
           THEN /\ skippedCount' = skippedCount + 1
                /\ itemsDone' = itemsDone + 1
                /\ job' = Append(job, [NewJob EXCEPT !.pc = "skipped"])
                /\ wg' = wg
           ELSE /\ skippedCount' = skippedCount
                /\ itemsDone' = itemsDone
                /\ job' = Append(job, [NewJob EXCEPT !.pc = "spawn"])
                /\ wg' = wg + 1
    /\ UNCHANGED << mu, sigPc, doneShown, held, fileVars, histVars, chanVars,
                    mainVars, pending, processedArchive, processedCount,
                    errorCount, reported >>

\* the pipes and cmd.Start (ytmp3.go 187-204)
VideoStart(j, ok) ==
    /\ At(j, "spawn")
    /\ IF ok
       THEN /\ job' = [job EXCEPT ![j].pc = "running", ![j].ran = TRUE]
            /\ errorCount' = errorCount
       ELSE /\ job' = [job EXCEPT ![j].pc = "wgdone"]
            /\ errorCount' = errorCount + 1
    /\ UNCHANGED << videoFrame, fileVars, processedArchive, processedCount,
                    itemsDone, wg >>

\* cmd.Wait and the error branch (ytmp3.go 232-239)
VideoExit(j, ok) ==
    /\ At(j, "running")
    /\ IF ok
       THEN /\ job' = [job EXCEPT ![j].pc = "append", ![j].taskOK = TRUE]
            /\ errorCount' = errorCount
       ELSE /\ job' = [job EXCEPT ![j].pc = "wgdone"]
            /\ errorCount' = errorCount + 1
    /\ UNCHANGED << videoFrame, fileVars, processedArchive, processedCount,
                    itemsDone, wg >>

\* appendToArchive under archiveMutex (ytmp3.go 141-155) and the counting
\* of its result (ytmp3.go 242-249)
VideoAppend(j, outcome) ==
    /\ At(j, "append")
    /\ file' = appendToArchiveFile(file, args[j], outcome)
    /\ fileExists' = appendToArchiveExists(fileExists, outcome)
    /\ processedArchive' = appendToArchiveMem(processedArchive, args[j], outcome)
    /\ job' = [job EXCEPT ![j].pc = "wgdone",
                          ![j].ArchiveErr = appendToArchiveErr(outcome),
                          ![j].appendCalled = TRUE]
    /\ IF appendToArchiveErr(outcome) # NoErr
       THEN errorCount' = errorCount + 1 /\ processedCount' = processedCount
       ELSE errorCount' = errorCount /\ processedCount' = processedCount + 1
    /\ UNCHANGED << videoFrame, itemsDone, wg >>

\* the deferred calls of processVideo in the order they run: the one
\* deferred last runs first (ytmp3.go 160, 162)
DeferOrder == << "wg.Done", "itemsDone.Add" >>

\* the first deferred call to run
VideoDeferFirst(j) ==
    /\ At(j, "wgdone")
    /\ job' = [job EXCEPT ![j].pc = "additem"]
    /\ wg' = wg - (IF DeferOrder[1] = "wg.Done" THEN 1 ELSE 0)
    /\ itemsDone' = itemsDone + (IF DeferOrder[1] = "itemsDone.Add" THEN 1 ELSE 0)
    /\ UNCHANGED << videoFrame, fileVars, processedArchive, processedCount,
                    errorCount >>

\* the second deferred call to run
VideoDeferSecond(j) ==
    /\ At(j, "additem")
    /\ job' = [job EXCEPT ![j].pc = "done"]
    /\ wg' = wg - (IF DeferOrder[2] = "wg.Done" THEN 1 ELSE 0)
    /\ itemsDone' = itemsDone + (IF DeferOrder[2] = "itemsDone.Add" THEN 1 ELSE 0)
    /\ UNCHANGED << videoFrame, fileVars, processedArchive, processedCount,
                    errorCount >>

\* wg.Wait() returns, the summary is printed with itemsDone.Load(), the
\* process exits (ytmp3.go 82-99)
MainSummaryItems ==
    /\ Alive
    /\ Len(job) = totalItems
    /\ WgWaitReturns
    /\ doneShown' = itemsDone
    /\ summary' = "complete"
    /\ mainPc' = "exited"
    /\ exitCode' = IF errorCount > 0 THEN 1 ELSE 0
    /\ UNCHANGED << mu, sigPc, itemsDone, held, fileVars, histVars, countVars,
                    chanVars, run, rawArgs, args, totalItems, sigBuffered,
                    ctxCancelled, initErr, processedArchive, pending, job, wg >>

NextItems ==
    \/ StartRunItems
    \/ LaunchNext
    \/ \E j \in DOMAIN job, ok \in BOOLEAN : VideoStart(j, ok)
    \/ \E j \in DOMAIN job, ok \in BOOLEAN : VideoExit(j, ok)
    \/ \E j \in DOMAIN job, o \in AppendOutcomes : VideoAppend(j, o)
    \/ \E j \in DOMAIN job : VideoDeferFirst(j)
    \/ \E j \in DOMAIN job : VideoDeferSecond(j)
    \/ MainSummaryItems

\* one run of src/Archive/ytmp3.go
SpecItems == InitOneRun /\ [][NextItems]_vars

\* one run of the program with the input deduplication bypassed
NextNoDedup ==
    \/ StartRunNoDedup
    \/ \E j \in DOMAIN job : MarkPending(j)
    \/ \E j \in DOMAIN job : CheckArchive(j)
    \/ \E j \in DOMAIN job, ok \in BOOLEAN : StartTask(j, ok)
    \/ \E j \in DOMAIN job, ok \in BOOLEAN : TaskExit(j, ok)
    \/ \E j \in DOMAIN job, o \in AppendOutcomes : AppendToArchive(j, o)
    \/ \E j \in DOMAIN job : UnmarkPending(j)
    \/ \E j \in DOMAIN job : SendResult(j)
    \/ \E j \in DOMAIN job : WgDone(j)
    \/ CloserWait
    \/ CloserClose
    \/ HandleResult
    \/ MainReturn

SpecNoDedup == Init /\ [][NextNoDedup]_vars

\* ---------------------------------------------- appendToArchive on its own
\* every archive file of at most n lines written by earlier appends
RECURSIVE FilesUpTo(_)
FilesUpTo(n) ==
    IF n = 0 THEN { <<>> }
    ELSE LET shorter == FilesUpTo(n - 1)
         IN  shorter \cup { Fprintln(d, x) : d \in shorter, x \in LedgerIdentifiers }

\* a run that has loaded the archive file and whose only job is about to
\* call appendToArchive, for any identifier and any loaded archive
InitAppend ==
    /\ file \in FilesUpTo(MaxLines)
    /\ fileExists = TRUE
    /\ run = 1
    /\ mainPc = "loop"
    /\ exitCode = -1
    /\ rawArgs \in { <<x>> : x \in LedgerIdentifiers }
    /\ args = rawArgs
    /\ totalItems = 1
    /\ processedArchive = LoadArchive(file)
    /\ pending = { args[1] }
    /\ job = << [NewJob EXCEPT !.pc = "append", !.ran = TRUE, !.taskOK = TRUE] >>
    /\ wg = 1
    /\ results = <<>>
    /\ closed = FALSE
    /\ closerPc = "wait"
    /\ panicked = FALSE
    /\ processedCount = 0
    /\ skippedCount = 0
    /\ errorCount = 0
    /\ reported = << "none" >>
    /\ summary = "none"
    /\ appendedOK = {}
    /\ ledgerErr = {}
    /\ prev = NoPrev
    /\ sigBuffered = 0
    /\ ctxCancelled = FALSE
    /\ initErr = NoErr
    /\ mu = 0
    /\ sigPc = "none"
    /\ itemsDone = 0
    /\ doneShown = -1
    /\ held = NoLocks

NextAppend == \E o \in AppendOutcomes : AppendToArchive(1, o)

SpecAppend == InitAppend /\ [][NextAppend]_vars

\* ================================================================== claims
Launched == DOMAIN job

\* the run ran to its end: results closed and drained, summary printed
RunCompleted == mainPc = "exited" /\ summary # "none"

NumberOf(S) == Cardinality(S)

\* C1: once the run has completed, submitted = succeeded + skipped + errored:
\* every launched job was counted in exactly one counter, and totalItems is
\* the number of launched jobs.
C1_CountersAddUp ==
    /\ processedCount = NumberOf({ j \in Launched : reported[j] = "success" })
    /\ skippedCount = NumberOf({ j \in Launched : reported[j] = "skipped" })
    /\ errorCount = NumberOf({ j \in Launched : reported[j] = "error" })
    /\ RunCompleted =>
          /\ totalItems = NumberOf(Launched)
          /\ processedCount + skippedCount + errorCount = totalItems

C1_Witness ==
    /\ RunCompleted
    /\ totalItems = 2
    /\ processedCount = 1
    /\ errorCount = 1

\* C2: every launched job sends exactly one result; no send blocks on a full
\* buffer, none happens on the closed channel, the send precedes wg.Done and
\* the channel is closed only after every job has sent.
C2_OneResultPerJob ==
    /\ ~panicked
    /\ \A j \in Launched :
          /\ job[j].sent = (IF job[j].pc \in {"wgdone", "done"} THEN 1 ELSE 0)
          /\ job[j].pc = "send" => Len(results) < totalItems /\ ~closed
    /\ closerPc \in {"close", "done"} => \A j \in Launched : job[j].sent = 1
    /\ RunCompleted => \A j \in Launched : job[j].sent = 1

C2_Witness ==
    /\ closed
    /\ \E i, j \in Launched :
          /\ job[i].Error = ErrDuplicate
          /\ job[j].ArchiveErr # NoErr
          /\ job[i].sent = 1 /\ job[j].sent = 1

\* C3: for each identifier at most one job is between its successful
\* markPending and its unmarkPending, so at most one external task per
\* identifier runs at a time, also when several jobs have the same identifier.
Holding(j) == job[j].pc \in {"check", "spawn", "running", "append", "unmark"}

C3_OneHolderPerIdentifier ==
    \A i, j \in Launched :
        (i # j /\ args[i] = args[j]) => ~(Holding(i) /\ Holding(j))

C3_Witness ==
    \E i, j \in Launched :
        /\ i # j /\ args[i] = args[j]
        /\ job[i].pc = "running"
        /\ job[j].Error = ErrDuplicate

\* C4 as stated: an identifier supplied N > 1 times has exactly one job reach
\* Running and N - 1 reported Skipped-Duplicate outcomes.
Occurrences(list, x) == NumberOf({ i \in DOMAIN list : list[i] = x })

Supplied == { rawArgs[i] : i \in DOMAIN rawArgs }

C4_Original ==
    \A x \in Supplied :
        (/\ RunCompleted
         /\ Occurrences(rawArgs, x) > 1
         /\ \E j \in Launched : args[j] = x /\ job[j].ran)
        => /\ NumberOf({ j \in Launched : args[j] = x /\ job[j].ran }) = 1
           /\ NumberOf({ j \in Launched : /\ args[j] = x
                                          /\ job[j].Error = ErrDuplicate
                                          /\ reported[j] # "none" })
                 = Occurrences(rawArgs, x) - 1

\* C4, amended: the occurrences of an identifier are collapsed before any job
\* is created: exactly one job is launched for each supplied identifier, at
\* most one job for it reaches Running, no Skipped-Duplicate outcome exists
\* and totalItems counts the distinct identifiers.
C4_Amended ==
    Launched # {} =>
        /\ totalItems = NumberOf(Supplied)
        /\ \A x \in Supplied :
              /\ NumberOf({ j \in Launched : args[j] = x }) = 1
              /\ NumberOf({ j \in Launched : args[j] = x /\ job[j].ran }) <= 1
        /\ \A j \in Launched : job[j].Error # ErrDuplicate

C4_Witness ==
    /\ RunCompleted
    /\ Len(rawArgs) = 2
    /\ totalItems = 1
    /\ job[1].ran
    /\ reported[1] = "success"

\* C5: a run given the identifier list of the previous run, in which every
\* job succeeded, starts no external task: every job is skipped as archived.
C5_RerunAllSkipped ==
    (mainPc = "loop" /\ prev.allSucceeded /\ prev.args = rawArgs) =>
        \A j \in Launched :
            /\ ~job[j].ran
            /\ job[j].pc # "spawn"
            /\ job[j].pc \in {"send", "wgdone", "done"} =>
                  job[j].Error = ErrSkipped

\* C6: an identifier is in the ledger if and only if an append for it
\* returned without error after a successful task, in this run or before.
C6_LedgerIffAppended ==
    mainPc = "loop" => processedArchive = appendedOK

\* C7: a job whose task succeeded and whose append failed carries an archive
\* error and no task error, and is counted as errored, never as succeeded.
C7_LedgerErrorCounted ==
    \A j \in Launched :
        job[j].ArchiveErr # NoErr =>
            /\ job[j].ran
            /\ job[j].Error = NoErr
            /\ reported[j] \in {"none", "error"}
            /\ RunCompleted => reported[j] = "error" /\ errorCount >= 1

C7_Witness ==
    /\ RunCompleted
    /\ \E j \in Launched : job[j].ArchiveErr # NoErr /\ reported[j] = "error"
    /\ processedCount = 0
    /\ errorCount = 1

\* C8: a failed append leaves the in-memory set as it was, and the identifier
\* of a job whose append failed is not in the in-memory set of that run.
AppendFails(j) ==
    /\ j \in Launched
    /\ job[j].pc = "append"
    /\ job'[j].ArchiveErr # NoErr

C8_FailedAppendNotMarked ==
    /\ [](\A j \in Launched :
             job[j].ArchiveErr # NoErr => args[j] \notin processedArchive)
    /\ [][(\E j \in Launched : AppendFails(j))
             => processedArchive' = processedArchive]_vars

C8_Witness ==
    /\ \E j \in Launched : job[j].ArchiveErr = ErrArchiveWrite
    /\ \E j \in Launched : job[j].ArchiveErr = ErrArchiveOpen
    /\ processedArchive = {}

\* C9: an identifier whose append failed and that was never appended since
\* is not skipped by a later run: its job starts the external task again.
C9_LedgerErrorRetried ==
    \A j \in Launched :
        (args[j] \in ledgerErr /\ args[j] \notin appendedOK)
            => job[j].Error # ErrSkipped

C11_SignalCancels ==
    \A j \in 1..MaxArgs :
        (j \in Launched /\ job[j].pc = "running" /\ sigBuffered > 0)
            ~> (ctxCancelled \/ mainPc = "exited")

\* C12: a job whose external task exited with success has no Error, calls
\* appendToArchive before it goes on, and is counted as a success or, with
\* an ArchiveErr, as an error; a signal that arrived meanwhile changes
\* nothing of this.
C12_SuccessIsRecorded ==
    \A j \in Launched :
        job[j].taskOK =>
            /\ job[j].Error = NoErr
            /\ job[j].pc = "append" \/ job[j].appendCalled
            /\ reported[j] \in {"none", "success", "error"}
            /\ reported[j] = "error" => job[j].ArchiveErr # NoErr
            /\ reported[j] = "success" => job[j].ArchiveErr = NoErr

C12_Witness ==
    /\ sigBuffered > 0
    /\ ~ctxCancelled
    /\ \E j \in Launched :
          job[j].taskOK /\ ~job[j].lateStart /\ reported[j] = "success"
    /\ \E j \in Launched :
          job[j].taskOK /\ ~job[j].lateStart /\ reported[j] = "error"

\* C13: a job whose external task had not been started when the signal
\* arrived does not start it.
C13_NoStartAfterSignal ==
    \A j \in Launched : ~job[j].lateStart

\* C14: every run that launched its jobs completes: the results channel is
\* closed and drained and main returns with the summary printed; the
\* summary of a run is printed once, and a launched run does not exit
\* without it, signal or not.
C14_RunCompletes ==
    /\ (mainPc = "loop") ~> RunCompleted
    /\ [](mainPc = "exited" /\ Launched # {} => summary # "none")
    /\ [][(summary # "none" /\ run' = run) => summary' = summary]_vars

C14_Witness ==
    /\ RunCompleted
    /\ closed
    /\ results = <<>>
    /\ sigBuffered > 0
    /\ \E j \in Launched : job[j].ran

\* C15: when a run that launched jobs has ended, its exit code is zero if
\* and only if no job was counted as an error.
C15_ExitCodeTellsErrors ==
    RunCompleted => (exitCode = 0 <=> errorCount = 0)

\* C16: a start of the program with no argument ends with a non-zero exit
\* code and no job, and leaves the ledger file as it was: not created, not
\* changed.
C16_EmptyInputTouchesNothing ==
    [][(run' = run + 1 /\ rawArgs' = <<>>) =>
          /\ mainPc' = "exited"
          /\ exitCode' # 0
          /\ job' = <<>>
          /\ fileExists' = fileExists
          /\ file' = file]_vars

\* C17: when the ledger cannot be located or initArchive fails, the run
\* ends with a non-zero exit code before any job is launched: no job, no
\* result, no summary.  Nothing else ends a run that launched its jobs: it
\* exits only by the return of main, after every job was reported.
C17_OnlyInitErrorIsFatal ==
    /\ initErr # NoErr =>
          /\ mainPc = "exited"
          /\ exitCode # 0
          /\ Launched = {}
          /\ results = <<>>
          /\ summary = "none"
    /\ (mainPc = "exited" /\ Launched # {}) =>
          /\ RunCompleted
          /\ ~panicked
          /\ \A j \in Launched : reported[j] # "none"

C17_Witness ==
    /\ run = 2
    /\ initErr = ErrInitOpen
    /\ rawArgs # <<>>
    /\ fileExists

\* the next step of job j
JobStepOf(j) ==
    \/ MarkPending(j)
    \/ CheckArchive(j)
    \/ \E ok \in BOOLEAN : StartTask(j, ok)
    \/ \E ok \in BOOLEAN : TaskExit(j, ok)
    \/ \E o \in AppendOutcomes : AppendToArchive(j, o)
    \/ UnmarkPending(j)
    \/ SendResult(j)
    \/ WgDone(j)

\* C18: a job is counted as a success exactly when its own external task
\* exited with success and its own append returned no error; the only
\* errors of a job are the skip for its archived identifier and the failure
\* of its own task; and whatever the other jobs did, a job that is not
\* done can take its next step, up to its report.
C18_JobsAreIndependent ==
    \A j \in Launched :
        /\ reported[j] # "none" =>
              (reported[j] = "success"
                  <=> job[j].taskOK /\ job[j].appendCalled
                        /\ job[j].ArchiveErr = NoErr)
        /\ job[j].Error \in {NoErr, ErrSkipped, ErrYtDlp}
        /\ job[j].Error = ErrYtDlp => ~job[j].taskOK
        /\ (Alive /\ job[j].pc # "done") => ENABLED JobStepOf(j)
        /\ (mainPc = "exited") => reported[j] # "none"

C18_Witness ==
    \E j, k \in Launched :
        /\ job[j].Error = ErrYtDlp
        /\ reported[j] = "error"
        /\ reported[k] = "none"
        /\ job[k].taskOK
        /\ job[k].pc = "append"

\* C19: a job that went through markPending has left the pending set when
\* its result is sent, on every path (archived, task failure, append
\* failure, success), and the pending set is empty when the run is over.
C19_PendingReleased ==
    /\ \A j \in Launched :
          job[j].pc \in {"send", "wgdone", "done"} => args[j] \notin pending
    /\ RunCompleted => pending = {}

C19_Witness ==
    /\ RunCompleted
    /\ pending = {}
    /\ \E j, k \in Launched :
          /\ job[j].Error = ErrSkipped
          /\ job[k].ArchiveErr # NoErr

\* the place of the first occurrence of x in list
FirstIndex(list, x) ==
    CHOOSE i \in DOMAIN list :
        /\ list[i] = x
        /\ \A k \in 1..(i - 1) : list[k] # x

\* C20: the jobs of a run are those of the distinct arguments, compared as
\* they were typed, each once, in the order of their first occurrence, and
\* they are numbered 1..n in that order.
C20_DedupFirstOccurrence ==
    (mainPc = "loop") =>
        /\ { args[i] : i \in DOMAIN args } = { rawArgs[i] : i \in DOMAIN rawArgs }
        /\ \A i, k \in DOMAIN args : i # k => args[i] # args[k]
        /\ \A i, k \in DOMAIN args :
              i < k => FirstIndex(rawArgs, args[i]) < FirstIndex(rawArgs, args[k])
        /\ totalItems = Len(args)
        /\ DOMAIN job = 1..Len(args)
        /\ \A j \in DOMAIN job :
              ResultOf(j).ItemNumber = j /\ ResultOf(j).Identifier = args[j]

C20_Witness ==
    /\ mainPc = "loop"
    /\ rawArgs = << <<" ", "a">>, <<"a">>, <<" ", "a">>, <<>> >>
    /\ args = << <<" ", "a">>, <<"a">>, <<>> >>

\* C21: the summary of a completed run says "interrupted" exactly when a
\* signal arrived during the run.
C21_SummaryTellsInterrupt ==
    RunCompleted => (summary = "interrupted" <=> sigBuffered > 0)

\* C22: a job starts its external task only after markPending returned true
\* and the archive lookup found its identifier absent, and it calls
\* appendToArchive only after its own task exited with success.
C22_StepsInOrder ==
    \A j \in Launched :
        /\ job[j].pc \in {"check", "spawn", "running", "append", "unmark"}
              => job[j].acquired
        /\ job[j].pc \in {"spawn", "running", "append"}
              => job[j].acquired /\ job[j].absent
        /\ job[j].ran => job[j].acquired /\ job[j].absent
        /\ (job[j].pc = "append" \/ job[j].appendCalled)
              => job[j].ran /\ job[j].taskOK
        /\ job[j].Error = ErrDuplicate => ~job[j].acquired /\ ~job[j].ran
        /\ job[j].Error = ErrSkipped => ~job[j].absent /\ ~job[j].ran

C22_Witness ==
    \E j, k \in Launched :
        /\ job[j].appendCalled
        /\ job[j].ArchiveErr = NoErr
        /\ job[k].Error = ErrSkipped
        /\ job[k].pc = "done"

\* C23: a job that was rejected as a duplicate, skipped as archived or whose
\* task failed never called appendToArchive, and no step of a job whose task
\* has not exited with success changes the ledger file or the in-memory set.
C23_LedgerUntouchedByLosers ==
    /\ [](\A j \in Launched :
             job[j].Error # NoErr => ~job[j].appendCalled /\ ~job[j].taskOK)
    /\ [][\A j \in Launched :
             (mainPc = "loop" /\ run' = run /\ job'[j] # job[j]
                  /\ ~job[j].taskOK)
                => /\ file' = file
                   /\ fileExists' = fileExists
                   /\ processedArchive' = processedArchive]_vars

C23_Witness ==
    /\ file = <<>>
    /\ processedArchive = {}
    /\ \E j, k \in Launched :
          /\ job[j].Error = ErrDuplicate
          /\ job[j].pc = "done"
          /\ job[k].Error = ErrYtDlp
          /\ job[k].pc = "done"

InAppend(j) == job[j].pc \in {"app_open", "app_write", "app_mem", "app_unlock"}

\* the statements of the archive lookup between Lock and Unlock
InCheck(j) == job[j].pc \in {"check_read", "check_unlock"}

\* C24: at most one job is inside appendToArchive's locked section, it is
\* the holder of the mutex, and while a job looks its identifier up in the
\* set no job is inside appendToArchive: no lookup sees the state between a
\* line written to the file and the set updated.
C24_AppendIsExclusive ==
    /\ \A j, k \in Launched : (InAppend(j) /\ InAppend(k)) => j = k
    /\ \A j, k \in Launched : InCheck(j) => ~InAppend(k)
    /\ \A j \in Launched : (InAppend(j) \/ InCheck(j)) => mu = j

C24_Witness ==
    \E j, k \in Launched :
        /\ job[j].pc = "app_mem"
        /\ job[k].pc = "check"
        /\ mu = j

\* positions i..j of the file are a line: a longest stretch without a line
\* feed (i = j + 1 for an empty line that a line feed ends)
IsLine(i, j) ==
    /\ i \in 1..Len(file)
    /\ j \in (i - 1)..Len(file)
    /\ i = 1 \/ file[i - 1] = NL
    /\ j = Len(file) \/ file[j + 1] = NL
    /\ \A k \in i..j : file[k] # NL

\* positions a..b are what is left of the line i..j without the white space
\* around it
IsTrimmedLine(i, j, a, b) ==
    /\ IsLine(i, j)
    /\ i <= a /\ a <= b /\ b <= j
    /\ ~IsSpace(file[a]) /\ ~IsSpace(file[b])
    /\ \A k \in (i..(a - 1)) \cup ((b + 1)..j) : IsSpace(file[k])

\* C25: after initArchive returned without error the in-memory set holds
\* exactly the lines of the file with the white space around them removed,
\* the blank lines left out; the file exists and its content is as before.
C25_LoadsTrimmedLines ==
    (run > 0 /\ initErr = NoErr) =>
        /\ \A x \in processedArchive :
              \E i, j, a, b \in 0..Len(file) :
                  IsTrimmedLine(i, j, a, b) /\ x = SubSeq(file, a, b)
        /\ \A i, j, a, b \in 0..Len(file) :
              IsTrimmedLine(i, j, a, b) => SubSeq(file, a, b) \in processedArchive
        /\ fileExists

C25_Witness ==
    /\ run > 0
    /\ initErr = NoErr
    /\ file = <<"a", NL, " ", "a">>
    /\ processedArchive = { <<"a">> }

\* C27: in ytmp3_v0.3.go a job whose cmd.Run returned nil is never given the
\* error "cancelled", and it has called appendToArchive when it goes on to
\* release its identifier.
C27_SuccessNotCancelled ==
    \A j \in Launched :
        job[j].taskOK =>
            /\ job[j].Error # ErrCancelled
            /\ job[j].pc \in {"unmark", "send", "wgdone", "done"}
                  => job[j].appendCalled

\* C28: in ytmp3_v0.3.go, when the run is over, the jobs whose append failed
\* are not among those counted in processedCount and are all counted in
\* errorCount.
C28_LedgerErrorNotSuccess ==
    RunCompleted =>
        /\ processedCount <=
              NumberOf({ j \in Launched : job[j].taskOK /\ job[j].ArchiveErr = NoErr })
        /\ errorCount >=
              NumberOf({ j \in Launched : job[j].ArchiveErr # NoErr })

\* C29: in ytmp3_v0.3.go, when the goroutine that received the signal has
\* cancelled the context during the run, the summary says "interrupted".
C29_OneSignalIsEnough ==
    (RunCompleted /\ sigPc = "done") => summary = "interrupted"

\* C30: the itemsDone value the summary prints after wg.Wait() returned is
\* the number of items submitted.
C30_ItemsDoneIsTotal ==
    doneShown # -1 => doneShown = totalItems

\* C31: at every state of a run every identifier of the in-memory ledger set
\* is among the trimmed non-blank lines of the archive file: the memory is
\* never ahead of the file.
C31_MemoryWithinFile ==
    mainPc = "loop" => processedArchive \subseteq LoadArchive(file)

\* C32: in a run the external task is started at most once for each distinct
\* identifier, and at most one line for each identifier is appended to the
\* archive file: a task is started, and a line is written, only by a job no
\* other job of whose identifier has done the same in this run.
C32_OncePerIdentifier ==
    [][(run' = run /\ DOMAIN job' = DOMAIN job) =>
          /\ \A j \in Launched :
                (~job[j].ran /\ job'[j].ran) =>
                    \A k \in Launched : args[k] = args[j] => ~job[k].ran
          /\ file' # file =>
                \E j \in Launched :
                    /\ file' = Fprintln(file, args[j])
                    /\ ~job[j].appendCalled /\ job'[j].appendCalled
                    /\ \A k \in Launched :
                          args[k] = args[j] => ~job[k].appendCalled]_vars

C32_Witness ==
    /\ RunCompleted
    /\ Len(rawArgs) = 2
    /\ rawArgs[1] = rawArgs[2]
    /\ job[1].ran
    /\ job[1].appendCalled
    /\ job[1].ArchiveErr = NoErr
    /\ file = Fprintln(<<>>, args[1])

\* C33: in a run of main.go markPending never returns false: no two jobs
\* have the same identifier, a job about to call markPending finds its
\* identifier free, every job past the call has acquired it and none carries
\* the duplicate-in-progress error.
C33_MarkPendingNeverFails ==
    \A j \in Launched :
        /\ \A k \in Launched : args[k] = args[j] => k = j
        /\ job[j].pc = "mark" => markPendingOK(pending, args[j])
        /\ job[j].pc # "mark" => job[j].acquired
        /\ job[j].Error # ErrDuplicate

C33_Witness ==
    /\ mainPc = "loop"
    /\ Len(args) = 2
    /\ job[1].acquired /\ job[2].acquired
    /\ pending = {args[1], args[2]}
    /\ NumberOf(pending) = 2

\* C34: a job whose markPending call returned false never calls
\* unmarkPending: only jobs that acquired their identifier reach the deferred
\* unmarkPending, so the identifier of a job that holds it stays in the
\* pending set until that job itself releases it, whatever rejected jobs do.
C34_RejectedNeverUnmarks ==
    \A j \in Launched :
        /\ job[j].pc = "unmark" => job[j].acquired
        /\ Holding(j) => args[j] \in pending

C34_Witness ==
    \E i, j \in Launched :
        /\ i # j /\ args[i] = args[j]
        /\ ~job[j].acquired
        /\ job[j].pc = "done"
        /\ Holding(i)
        /\ args[i] \in pending

\* C35: persisting and reloading the ledger round-trips: when a run starts
\* and initArchive succeeds, the contains check on the loaded set is true for
\* every raw identifier for which appendToArchive returned nil in an earlier
\* run, whatever whitespace the identifier has.
C35_ReloadRoundTrip ==
    [][(run' = run + 1 /\ initErr' = NoErr) =>
          \A id \in appendedOK : ArchiveExists(processedArchive', id)]_vars

\* C36: no goroutine of main.go holds two of the locks outputMutex, pending
\* and processedArchive at the same time; a goroutine holds none of them
\* while it waits for the external task or at the channel send; a lock is
\* only held by a goroutine inside the critical section of that lock; and
\* while the run is on some step of the program can always be taken: there
\* is no deadlock.
HeldBy(j) ==
    { l \in DOMAIN held : held[l] = j }
        \cup (IF mu = j THEN {"processedArchive"} ELSE {})

C36_LocksNeverNested ==
    /\ \A j \in Launched :
          /\ NumberOf(HeldBy(j)) <= 1
          /\ job[j].pc \in {"spawn", "running", "send", "wgdone", "done"}
                => HeldBy(j) = {}
          /\ held.outputMutex = j => job[j].pc = "print"
          /\ held.pending = j =>
                job[j].pc \in {"mark_in", "mark_unlock", "unmark_in"}
          /\ mu = j =>
                job[j].pc \in {"check_read", "check_unlock", "app_open",
                               "app_write", "app_mem", "app_unlock"}
    /\ Alive => ENABLED MutexStep

C36_Witness ==
    \E i, j \in Launched :
        /\ i # j
        /\ HeldBy(i) = {"processedArchive"}
        /\ job[i].pc = "app_write"
        /\ HeldBy(j) = {"pending"}
        /\ job[j].pc = "unmark_in"

====
